---------------------------- MODULE Spec2Model ----------------------------
(***************************************************************************)
(* Model of the BMP image compression codec: the LZ77 stage (lz77.py),     *)
(* the Huffman stage and the combined codec (huffman.py) and the           *)
(* length-prefixed container file (helper.py).                             *)
(*                                                                         *)
(* Byte buffers are sequences over 0..255.  Python indices are 0-based;    *)
(* the operators below keep the 0-based positions of the source and add 1  *)
(* when they index a TLA+ sequence.                                        *)
(***************************************************************************)
EXTENDS Integers, Sequences, FiniteSets, TLC

VARIABLES
    \* ---- codec pipeline (compress_lz77 / compress_huffman / combined_*)
    entry,          \* which public entry point is running
    data,           \* the caller's input buffer
    pc,             \* position of the pipeline
    current_pos,    \* compress_lz77: current_pos
    tokens,         \* compress_lz77: (current_pos, offset, length, next_char) of each iteration so far
    result,         \* compress_lz77: the token bytearray being built
    lz_out,         \* bytes returned by compress_lz77
    lz_meta,        \* metadata returned by compress_lz77
    huff_out,       \* bytes returned by compress_huffman
    huff_meta,      \* metadata returned by compress_huffman
    huff_decoded,   \* outcome of decompress_huffman
    output,         \* outcome of the whole decompression
    \* ---- find_longest_match called on its own
    fm_args,        \* (data, current_pos, window_size, lookahead_buffer_size)
    fm_ret,         \* the returned (offset, length, next_char)
    \* ---- Huffman code tables
    tb_freq,        \* frequency table, in insertion order
    tb_heap,        \* build_huffman_tree: the heap
    tb_codes,       \* code table (dict, in insertion order)
    tb_bytes,       \* serialize_tree output
    tb_back,        \* deserialize_tree output
    tb_pc,
    \* ---- container file
    ct_rec,         \* the record handed to save_compressed_file
    ct_file,        \* the bytes of the file on disk
    ct_intact,      \* the file is exactly what save_compressed_file wrote
    ct_loaded,      \* what load_compressed_file returned
    ct_pc,
    \* ---- variable_length_encode / variable_length_decode on their own
    vl_args,        \* (offset, length)
    vl_bytes,       \* variable_length_encode output
    vl_ret          \* outcome of variable_length_decode at position 0

codecVars == <<entry, data, pc, current_pos, tokens, result, lz_out, lz_meta,
               huff_out, huff_meta, huff_decoded, output>>
matchVars == <<fm_args, fm_ret>>
tableVars == <<tb_freq, tb_heap, tb_codes, tb_bytes, tb_back, tb_pc>>
containerVars == <<ct_rec, ct_file, ct_intact, ct_loaded, ct_pc>>
varintVars == <<vl_args, vl_bytes, vl_ret>>
vars == <<codecVars, matchVars, tableVars, containerVars, varintVars>>

(***************************************************************************)
(* Program constants                                                       *)
(***************************************************************************)
DEFAULT_WINDOW_SIZE == 4096
DEFAULT_LOOKAHEAD == 128
LZ_MIN_INPUT == 50
HUFF_MIN_INPUT == 100
HUFF_OVERHEAD == 10
SENTINEL == 255

\* Python's None, kept apart from every byte value
None == 0 - 1

\* an operation that raised
Raised == [ok |-> FALSE]
Returned(v) == [ok |-> TRUE, val |-> v]

Min(a, b) == IF a < b THEN a ELSE b
Max(a, b) == IF a > b THEN a ELSE b

\* for i in range(lo, hi): s = Body(s, i)
\* The range is halved so that a long loop is a shallow evaluation; the
\* test left = left, true of every value, only makes the first half be
\* evaluated before the second half starts.
RECURSIVE ForRange(_, _, _, _)
ForRange(Body(_, _), lo, hi, s) ==
    IF lo >= hi THEN s
    ELSE IF hi = lo + 1 THEN Body(s, lo)
    ELSE LET mid == (lo + hi) \div 2
             left == ForRange(Body, lo, mid, s)
         IN  IF left = left THEN ForRange(Body, mid, hi, left) ELSE s

\* for i in range(lo, hi): if not Go(s): break; s = Body(s, i)
\* halved like ForRange; the test Go(left) has the first half evaluated
\* before the second half starts
RECURSIVE WhileRange(_, _, _, _, _)
WhileRange(Body(_, _), Go(_), lo, hi, s) ==
    IF lo >= hi THEN s
    ELSE IF hi = lo + 1 THEN (IF Go(s) THEN Body(s, lo) ELSE s)
    ELSE LET mid == (lo + hi) \div 2
             left == WhileRange(Body, Go, lo, mid, s)
         IN  IF Go(left) THEN WhileRange(Body, Go, mid, hi, left) ELSE left

(***************************************************************************)
(* lz77.py                                                                 *)
(***************************************************************************)

\* MatchStep without the break of lines 37-38
MatchStep_NoBreak(d, i, pos, end_of_buffer, st) ==
    IF pos + st[1] < end_of_buffer /\ d[i + st[1] + 1] = d[pos + st[1] + 1]
    THEN <<st[1] + 1, TRUE>>
    ELSE <<st[1], FALSE>>

\* one pass of the inner while loop of find_longest_match (lines 33-38);
\* the state is <<match_length, the loop goes on>>: extend while inside the
\* lookahead and the bytes agree, and break as soon as i + match_length
\* reaches current_pos
MatchStep(d, i, pos, end_of_buffer, st) ==
    IF pos + st[1] < end_of_buffer /\ d[i + st[1] + 1] = d[pos + st[1] + 1]
    THEN <<st[1] + 1, i + st[1] + 1 < pos>>
    ELSE <<st[1], FALSE>>

\* the inner while loop for one start index i, from match_length on; it
\* ends within end_of_buffer - current_pos + 1 passes
MatchLength(d, i, pos, end_of_buffer, match_length) ==
    WhileRange(LAMBDA st, k : MatchStep(d, i, pos, end_of_buffer, st),
               LAMBDA st : st[2],
               0, end_of_buffer - pos + 1, <<match_length, TRUE>>)[1]

\* BetterMatch that also lets an equal candidate replace the best match
BetterMatch_OrEqual(match_length, best_match_length) ==
    match_length > 0 /\ match_length >= best_match_length

\* does a candidate replace the best match so far (line 40)
BetterMatch(match_length, best_match_length) == match_length > best_match_length

\* the body of the for loop over the window (lines 31-42);
\* best is <<best_match_offset, best_match_length>>
ScanStep(d, pos, end_of_buffer, best, i) ==
    LET m == MatchLength(d, i, pos, end_of_buffer, 0) IN
    IF BetterMatch(m, best[2]) THEN <<pos - i, m>> ELSE best

\* ScanWindow that starts at the beginning of the data, whatever the window
ScanWindow_FromZero(d, lo, pos, end_of_buffer) ==
    ForRange(LAMBDA best, i : ScanStep(d, pos, end_of_buffer, best, i),
             0, pos, <<0, 0>>)

\* for i in range(max(0, current_pos - window_size), current_pos)
ScanWindow(d, lo, pos, end_of_buffer) ==
    ForRange(LAMBDA best, i : ScanStep(d, pos, end_of_buffer, best, i),
             lo, pos, <<0, 0>>)

\* find_longest_match(data, current_pos, window_size, lookahead_buffer_size)
\* returns <<offset, length, next_char>>
find_longest_match(d, pos, window_size, lookahead) ==
    LET end_of_buffer == Min(pos + lookahead, Len(d))
        next_char == IF end_of_buffer = Len(d) THEN None ELSE d[end_of_buffer + 1]
    IN  IF pos >= Len(d) THEN <<0, 0, None>>
        ELSE IF pos >= end_of_buffer THEN <<0, 0, next_char>>
        ELSE LET best == ScanWindow(d, Max(0, pos - window_size), pos,
                                    end_of_buffer)
             IN  <<best[1], best[2],
                   IF pos + best[2] < Len(d) THEN d[pos + best[2] + 1] ELSE None>>

\* Or80 that leaves the marker bit out
Or80_NoFlag(x) == x

\* x | 0x80 for a non-negative x
Or80(x) == IF (x \div 128) % 2 = 1 THEN x ELSE x + 128

\* one value of variable_length_encode: one byte below 128, else two bytes
EncodeValue(v) ==
    IF v < 128 THEN <<v>> ELSE <<Or80(v \div 256), v % 256>>

\* variable_length_encode(offset, length)
variable_length_encode(offset, length) == EncodeValue(offset) \o EncodeValue(length)

\* one value of variable_length_decode at 0-based pos: <<value, new pos>>,
\* raising IndexError when it reads past the end
DecodeValue(d, pos) ==
    IF pos >= Len(d) THEN Raised
    ELSE IF d[pos + 1] < 128 THEN Returned(<<d[pos + 1], pos + 1>>)
    ELSE IF pos + 1 >= Len(d) THEN Raised
    ELSE Returned(<<(d[pos + 1] % 128) * 256 + d[pos + 2], pos + 2>>)

\* variable_length_decode(data, pos): <<offset, length, new pos>>
variable_length_decode(d, pos) ==
    LET o == DecodeValue(d, pos) IN
    IF ~o.ok THEN Raised
    ELSE LET l == DecodeValue(d, o.val[2]) IN
         IF ~l.ok THEN Raised
         ELSE Returned(<<o.val[1], l.val[1], l.val[2]>>)

\* LiteralByte without the substitution of 0xFF for None
LiteralByte_KeepNone(next_char) == next_char

\* what compress_lz77 appends for next_char (line 126)
LiteralByte(next_char) == IF next_char # None THEN next_char ELSE SENTINEL

\* CopyOne that counts the offset from the start of the output
CopyOne_FromStart(r, offset) ==
    IF ~r.ok THEN Raised
    ELSE IF offset > Len(r.val) \/ Len(r.val) = 0 THEN Raised
    ELSE Returned(Append(r.val, r.val[IF offset = 0 THEN 1 ELSE offset]))

\* result.append(result[-offset]); result[-0] is result[0], and an index
\* outside the bytearray raises IndexError
CopyOne(r, offset) ==
    IF ~r.ok THEN Raised
    ELSE IF offset > Len(r.val) \/ Len(r.val) = 0 THEN Raised
    ELSE Returned(Append(r.val, IF offset = 0 THEN r.val[1]
                                ELSE r.val[Len(r.val) - offset + 1]))

\* for _ in range(length): result.append(result[-offset])
CopyMatch(res, offset, n) ==
    ForRange(LAMBDA r, k : CopyOne(r, offset), 0, n, Returned(res))

\* AppendLiteral that appends every byte, 0xFF included
AppendLiteral_KeepSentinel(res, next_char) ==
    IF next_char = None THEN Raised ELSE Returned(Append(res, next_char))

\* if next_char != 0xFF: result.append(next_char)
\* (appending None to a bytearray raises TypeError)
AppendLiteral(res, next_char) ==
    IF next_char = SENTINEL THEN Returned(res)
    ELSE IF next_char = None THEN Raised
    ELSE Returned(Append(res, next_char))

\* the while loop of decompress_lz77
RECURSIVE LzDecodeLoop(_, _, _)
LzDecodeLoop(cd, pos, res) ==
    IF pos >= Len(cd) THEN Returned(res)
    ELSE LET t == variable_length_decode(cd, pos) IN
         IF ~t.ok THEN Raised
         ELSE LET offset == t.val[1]
                  length == t.val[2]
                  p == t.val[3]
                  next_char == IF p < Len(cd) THEN cd[p + 1] ELSE None
                  copied == IF offset = 0 /\ length = 0 THEN Returned(res)
                            ELSE CopyMatch(res, offset, length)
              IN  IF ~copied.ok THEN Raised
                  ELSE LET lit == AppendLiteral(copied.val, next_char) IN
                       IF ~lit.ok THEN Raised
                       ELSE LzDecodeLoop(cd, p + 1, lit.val)

\* MetaCompressed that never looks at the stored flag
MetaCompressed_IgnoreFlag(meta) == TRUE

\* metadata.get('compressed', True)
MetaCompressed(meta) ==
    IF "compressed" \in DOMAIN meta THEN meta.compressed ELSE TRUE

\* decompress_lz77(compressed_data, metadata)
decompress_lz77(cd, meta) ==
    IF ~MetaCompressed(meta) THEN Returned(cd)
    ELSE LzDecodeLoop(cd, 0, <<>>)

\* the verdict at the end of compress_lz77 (line 136)
LzShrinks(res, d) == Len(res) < Len(d)

\* LzTooSmall with the threshold one byte too low
LzTooSmall_OffByOne(d) == Len(d) < LZ_MIN_INPUT - 1

\* the early return of compress_lz77 (line 117)
LzTooSmall(d) == Len(d) < LZ_MIN_INPUT

LzAppliedMeta(window_size, lookahead) ==
    [window_size |-> window_size, lookahead_buffer_size |-> lookahead,
     compressed |-> TRUE]
NotAppliedMeta == [compressed |-> FALSE]


(***************************************************************************)
(* huffman.py                                                              *)
(*                                                                         *)
(* A dict is a sequence of <<key, value>> pairs in insertion order; a code *)
(* (a string of '0' and '1') is a sequence over {0, 1}.                    *)
(***************************************************************************)

Range(s) == {s[k] : k \in 1..Len(s)}
Keys(dict) == {dict[k][1] : k \in 1..Len(dict)}
DictGet(dict, key) == dict[CHOOSE k \in 1..Len(dict) : dict[k][1] = key][2]

\* dict[key] = value: a present key keeps its place and takes the new value
DictSet(dict, key, value) ==
    IF key \in Keys(dict)
    THEN [k \in 1..Len(dict) |->
            IF dict[k][1] = key THEN <<key, value>> ELSE dict[k]]
    ELSE Append(dict, <<key, value>>)

\* dict equality does not look at the insertion order
DictEq(a, b) == Range(a) = Range(b) /\ Len(a) = Len(b)

\* build_frequency_table(data) = Counter(data): symbols in order of first
\* occurrence, each with its count
FirstSeen(d) ==
    ForRange(LAMBDA acc, i :
                 IF d[i] \in Range(acc) THEN acc ELSE Append(acc, d[i]),
             1, Len(d) + 1, <<>>)

build_frequency_table(d) ==
    LET syms == FirstSeen(d) IN
    [k \in 1..Len(syms) |->
        <<syms[k], Cardinality({i \in 1..Len(d) : d[i] = syms[k]})>>]

\* a heap entry [weight, [symbol, code], ...]
HeapEntry(weight, pairs) == [weight |-> weight, pairs |-> pairs]

\* Python's list order on two heap entries: the weights, then the first
\* [symbol, code] pair (the symbols of two entries always differ)
EntryLess(a, b) ==
    \/ a.weight < b.weight
    \/ a.weight = b.weight /\ a.pairs[1][1] < b.pairs[1][1]

\* heap = [[weight, [symbol, ""]] ...]; heapq.heapify(heap)
InitialHeap(freq) == {HeapEntry(freq[k][2], <<<<freq[k][1], <<>>>>>>) : k \in 1..Len(freq)}

\* what heapq.heappop returns: the least entry
HeapMin(heap) == CHOOSE e \in heap : \A f \in heap \ {e} : EntryLess(e, f)

\* PrefixCodes with the bit put after the code instead of before it
PrefixCodes_Suffix(pairs, bit) ==
    [k \in 1..Len(pairs) |-> <<pairs[k][1], pairs[k][2] \o <<bit>>>>]

\* pair[1] = bit + pair[1] for every pair of an entry
PrefixCodes(pairs, bit) ==
    [k \in 1..Len(pairs) |-> <<pairs[k][1], <<bit>> \o pairs[k][2]>>]

\* the bits given to the two popped entries (lines 35 and 37)
LoBit == 0
HiBit == 1

\* one iteration of the merge loop of build_huffman_tree
HeapMerge(heap) ==
    LET lo == HeapMin(heap)
        hi == HeapMin(heap \ {lo})
    IN  (heap \ {lo, hi}) \cup
        {HeapEntry(lo.weight + hi.weight,
                   PrefixCodes(lo.pairs, LoBit) \o PrefixCodes(hi.pairs, HiBit))}

RECURSIVE MergeAll(_)
MergeAll(heap) == IF Cardinality(heap) > 1 THEN MergeAll(HeapMerge(heap)) ELSE heap

\* the single-symbol edge case (line 30)
SingleSymbolTree(heap) ==
    HeapEntry(1, <<<<HeapMin(heap).pairs[1][1], <<0>>>>>>)

\* build_huffman_tree(freq_table); heap[0] of an empty heap raises
build_huffman_tree(freq) ==
    LET heap == InitialHeap(freq) IN
    IF Cardinality(heap) = 0 THEN Raised
    ELSE IF Cardinality(heap) = 1 THEN Returned(SingleSymbolTree(heap))
    ELSE Returned(HeapMin(MergeAll(heap)))

\* build_huffman_codes(huffman_tree)
build_huffman_codes(tree) ==
    ForRange(LAMBDA acc, k : DictSet(acc, tree.pairs[k][1], tree.pairs[k][2]),
             1, Len(tree.pairs) + 1, <<>>)

Pow2(n) == 2 ^ n

\* the value of the byte holding bits i .. i+7 (0-based) of a bit sequence,
\* most significant bit first, missing bits zero
RECURSIVE PackFrom(_, _, _)
PackFrom(bits, i, j) ==
    IF j > 7 \/ i + j >= Len(bits) THEN 0
    ELSE Pow2(7 - j) * bits[i + j + 1] + PackFrom(bits, i, j + 1)

PackByte(bits, i) == PackFrom(bits, i, 0)

\* the bytes of the bits, 8 per byte
PackBits(bits) ==
    [k \in 1..((Len(bits) + 7) \div 8) |-> PackByte(bits, 8 * (k - 1))]

\* bit i (0-based, most significant first) of a byte
BitOf(byte, i) == (byte \div Pow2(7 - i)) % 2

\* len(codes).to_bytes(2, 'little')
CountBytes(n) == <<n % 256, (n \div 256) % 256>>

\* one table entry: symbol, code length, packed code bits
SerializeEntry(pair) == <<pair[1], Len(pair[2])>> \o PackBits(pair[2])

\* serialize_tree(codes)
serialize_tree(codes) ==
    ForRange(LAMBDA acc, k : acc \o SerializeEntry(codes[k]),
             1, Len(codes) + 1, CountBytes(Len(codes)))

\* the code read back at 0-based pos with code_length bits
ReadCode(d, pos, code_length) ==
    [i \in 1..code_length |-> BitOf(d[pos + ((i - 1) \div 8) + 1], (i - 1) % 8)]

\* CodeBytes rounding down instead of up
CodeBytes_Floor(code_length) == code_length \div 8

\* the number of packed bytes of a code (line 93)
CodeBytes(code_length) == (code_length + 7) \div 8

\* one iteration of the loop of deserialize_tree (lines 88-93); the state
\* is <<codes, pos>>, and an index past the end raises IndexError
DeserializeEntry(d, st) ==
    IF ~st.ok THEN Raised
    ELSE LET codes == st.val[1]
             pos == st.val[2]
         IN  IF pos + 1 >= Len(d) THEN Raised
             ELSE LET symbol == d[pos + 1]
                      code_length == d[pos + 2]
                  IN  IF code_length > 0
                         /\ pos + 2 + CodeBytes(code_length) > Len(d)
                      THEN Raised
                      ELSE Returned(<<DictSet(codes, symbol,
                                              ReadCode(d, pos + 2, code_length)),
                                      pos + 2 + CodeBytes(code_length)>>)

\* int.from_bytes(data[0:2], 'little')
CountFromBytes(d) ==
    (IF Len(d) >= 1 THEN d[1] ELSE 0) + (IF Len(d) >= 2 THEN 256 * d[2] ELSE 0)

\* deserialize_tree(data)
deserialize_tree(d) ==
    LET st == ForRange(LAMBDA s, k : DeserializeEntry(d, s),
                       0, CountFromBytes(d), Returned(<<<<>>, 2>>))
    IN  IF st.ok THEN Returned(st.val[1]) ELSE Raised

\* efficient_binary_string_to_bytes(binary_string): <<bytes, padding>>
\* PaddingOf that reports no padding
PaddingOf_None(n) == 0

\* the padding of line 106
PaddingOf(n) == IF n % 8 # 0 THEN 8 - (n % 8) ELSE 0

efficient_binary_string_to_bytes(bits) == <<PackBits(bits), PaddingOf(Len(bits))>>

\* efficient_bytes_to_binary_string(data, padding)
efficient_bytes_to_binary_string(d, padding) ==
    LET all == [i \in 1..(8 * Len(d)) |-> BitOf(d[((i - 1) \div 8) + 1], (i - 1) % 8)]
    IN  IF padding # 0 THEN SubSeq(all, 1, Max(0, Len(all) - padding)) ELSE all

\* ''.join(codes[byte] for byte in data)
EncodeData(d, codes) ==
    LET codeOf == [s \in Keys(codes) |-> DictGet(codes, s)]
    IN  ForRange(LAMBDA acc, i : acc \o codeOf[d[i]], 1, Len(d) + 1, <<>>)

\* the early return of compress_huffman (line 134)
HuffTooSmall(d) == Len(d) < HUFF_MIN_INPUT

\* HuffNoGain without the fixed overhead
HuffNoGain_NoOverhead(compressed_bytes, tree_bytes, d) ==
    Len(compressed_bytes) + Len(tree_bytes) >= Len(d)

\* the fallback test of compress_huffman (line 143)
HuffNoGain(compressed_bytes, tree_bytes, d) ==
    Len(compressed_bytes) + Len(tree_bytes) + HUFF_OVERHEAD >= Len(d)

\* compress_huffman(data): <<bytes, metadata>>
compress_huffman(d) ==
    IF HuffTooSmall(d) THEN Returned(<<d, NotAppliedMeta>>)
    ELSE LET tree == build_huffman_tree(build_frequency_table(d)) IN
         IF ~tree.ok THEN Raised
         ELSE LET codes == build_huffman_codes(tree.val)
                  packed == efficient_binary_string_to_bytes(EncodeData(d, codes))
                  tree_bytes == serialize_tree(codes)
              IN  IF HuffNoGain(packed[1], tree_bytes, d)
                  THEN Returned(<<d, NotAppliedMeta>>)
                  ELSE Returned(<<packed[1],
                                  [huffman_codes |-> tree_bytes,
                                   padding |-> packed[2],
                                   compressed |-> TRUE]>>)

\* lookup = {code: symbol for symbol, code in codes.items()}
InverseTable(codes) ==
    ForRange(LAMBDA acc, k : DictSet(acc, codes[k][2], codes[k][1]),
             1, Len(codes) + 1, <<>>)

\* the body of the decoding loop (lines 172-175); the state is
\* <<result, code>>
DecodeBit(lookupFn, st, bit) ==
    LET code == Append(st[2], bit) IN
    IF code \in DOMAIN lookupFn
    THEN <<Append(st[1], lookupFn[code]), <<>>>>
    ELSE <<st[1], code>>

\* for bit in binary_string: ... ; return bytes(result)
DecodeBits(bits, lookup) ==
    LET lookupFn == [c \in Keys(lookup) |-> DictGet(lookup, c)]
    IN  ForRange(LAMBDA st, i : DecodeBit(lookupFn, st, bits[i]),
                 1, Len(bits) + 1, <<<<>>, <<>>>>)[1]

\* metadata.get('padding', 0)
MetaPadding(meta) == IF "padding" \in DOMAIN meta THEN meta.padding ELSE 0

\* decompress_huffman(compressed_data, metadata)
decompress_huffman(cd, meta) ==
    IF ~MetaCompressed(meta) THEN Returned(cd)
    ELSE IF "huffman_codes" \notin DOMAIN meta THEN Raised
    ELSE LET codes == deserialize_tree(meta.huffman_codes) IN
         IF ~codes.ok THEN Raised
         ELSE Returned(DecodeBits(
                  efficient_bytes_to_binary_string(cd, MetaPadding(meta)),
                  InverseTable(codes.val)))


(***************************************************************************)
(* Input buffers of the codec                                              *)
(***************************************************************************)
LenSlack == 1
MaxPeriod == 3

\* the lengths around the two size thresholds, and the two smallest
InputLens ==
    {0, 1} \cup ((LZ_MIN_INPUT - 1)..(LZ_MIN_INPUT + LenSlack))
           \cup ((HUFF_MIN_INPUT - 1)..(HUFF_MIN_INPUT + LenSlack))
InputBases == {65, 250, 255}
InputPeriods == (1..MaxPeriod) \cup {7, 15, 60}
SpikeBytes == {66, 255}

\* base, base+1, ..., base+period-1, base, ... (mod 256)
Ramp(n, base, period) == [i \in 1..n |-> (base + ((i - 1) % period)) % 256]

\* n copies of base with one other byte v at 0-based position k
Spike(n, base, k, v) == [i \in 1..n |-> IF i = k + 1 THEN v ELSE base]

\* the motif repeated up to n bytes
Tile(n, motif) == [i \in 1..n |-> motif[((i - 1) % Len(motif)) + 1]]

\* motifs with a repeated byte, so that a match is followed by the third
\* byte of the motif, which is 0xFF in some of them
Motifs ==
    {<<65, 65, 255>>, <<65, 65, 66>>, <<65, 66, 65, 65, 255>>,
     <<65, 66, 65, 65, 67>>}

\* the length of the long inputs, the period of a ramp whose repeats lie
\* more than 127 bytes back (a two-byte offset), and a length at which a
\* run of one byte gives a match of 128 bytes (a two-byte length)
LongLen == 200
WidePeriod == 130
LongRunLen == 400

CodecInputs ==
    {Ramp(n, b, p) : n \in InputLens, b \in InputBases, p \in InputPeriods}
    \cup {Tile(n, m) : n \in InputLens \ {0, 1}, m \in Motifs}
    \cup {Ramp(LongLen, 65, p) : p \in 1..MaxPeriod}
    \cup {Spike(LongLen, 65, LongLen - 1, v) : v \in SpikeBytes}
    \cup {Ramp(LongLen, 0, WidePeriod), Ramp(LongRunLen, 65, 1)}
    \cup {Spike(n, 65, k, v) : n \in InputLens \ {0}, k \in {0, 1}, v \in SpikeBytes}
    \cup {Spike(n, 65, n - 1, v) : n \in InputLens \ {0}, v \in SpikeBytes}

\* the public entry points: compress_image_combined + decompress_image_combined,
\* compress_image_lz77 + decompress_image_lz77, compress_image_huffman +
\* decompress_image_huffman, and decompress_image_combined on a stored
\* buffer whose two stages were not applied
Entries == {"combined", "lz77", "huffman", "stored"}

Unset == [unset |-> TRUE]

IdleCodec ==
    /\ entry = "none" /\ data = <<>> /\ pc = "idle" /\ current_pos = 0
    /\ tokens = <<>>
    /\ result = <<>> /\ lz_out = <<>> /\ lz_meta = Unset /\ huff_out = <<>>
    /\ huff_meta = Unset /\ huff_decoded = Unset /\ output = Unset
IdleMatch == fm_args = <<>> /\ fm_ret = <<>>
IdleTable ==
    /\ tb_freq = <<>> /\ tb_heap = {} /\ tb_codes = <<>> /\ tb_bytes = <<>>
    /\ tb_back = Unset /\ tb_pc = "idle"
IdleContainer ==
    /\ ct_rec = Unset /\ ct_file = <<>> /\ ct_intact = FALSE
    /\ ct_loaded = Unset /\ ct_pc = "idle"

IdleVarint == vl_args = <<>> /\ vl_bytes = <<>> /\ vl_ret = Unset

IsBytes(s) == \A k \in 1..Len(s) : s[k] \in 0..255

(***************************************************************************)
(* The codec pipeline                                                      *)
(***************************************************************************)
Init ==
    /\ entry \in Entries
    /\ data \in CodecInputs
    /\ pc = CASE entry = "huffman" -> "huffman"
              [] entry = "stored" -> "unhuffman"
              [] OTHER -> "lz77"
    /\ current_pos = 0 /\ tokens = <<>> /\ result = <<>>
    /\ lz_out = <<>>
    /\ lz_meta = IF entry = "stored" THEN NotAppliedMeta ELSE Unset
    /\ huff_out = IF entry = "stored" THEN data ELSE <<>>
    /\ huff_meta = IF entry = "stored" THEN NotAppliedMeta ELSE Unset
    /\ huff_decoded = Unset /\ output = Unset
    /\ IdleMatch /\ IdleTable /\ IdleContainer /\ IdleVarint

\* where the pipeline goes once compress_lz77 has returned
AfterLz == IF entry = "combined" THEN "huffman" ELSE "unlz77"

\* compress_lz77, lines 117-118: the input is too small
LzSkip ==
    /\ pc = "lz77" /\ LzTooSmall(data)
    /\ lz_out' = data /\ lz_meta' = NotAppliedMeta
    /\ pc' = AfterLz
    /\ UNCHANGED <<entry, data, current_pos, tokens, result, huff_out, huff_meta,
                   huff_decoded, output, matchVars, tableVars, containerVars, varintVars>>

\* compress_lz77, lines 120-121
LzEnter ==
    /\ pc = "lz77" /\ ~LzTooSmall(data)
    /\ result' = <<>> /\ current_pos' = 0 /\ tokens' = <<>>
    /\ pc' = "lz77_loop"
    /\ UNCHANGED <<entry, data, lz_out, lz_meta, huff_out, huff_meta,
                   huff_decoded, output, matchVars, tableVars, containerVars, varintVars>>

\* NextPos that leaves the literal out
NextPos_MatchOnly(pos, length) == pos + length

\* current_pos += length + 1 (line 127)
NextPos(pos, length) == pos + length + 1

\* the bytes one iteration appends (lines 124-126)
TokenBytes(m) == variable_length_encode(m[1], m[2]) \o <<LiteralByte(m[3])>>

\* compress_lz77, lines 123-127: one iteration of the token loop; a value
\* outside 0..255 makes the bytearray raise
LzToken ==
    /\ pc = "lz77_loop" /\ current_pos < Len(data)
    /\ LET m == find_longest_match(data, current_pos, DEFAULT_WINDOW_SIZE,
                                   DEFAULT_LOOKAHEAD)
           tok == TokenBytes(m)
       IN  IF IsBytes(tok)
           THEN /\ result' = result \o tok
                /\ tokens' = Append(tokens, <<current_pos, m[1], m[2], m[3]>>)
                /\ current_pos' = NextPos(current_pos, m[2])
                /\ pc' = pc
           ELSE /\ pc' = "raised"
                /\ UNCHANGED <<result, tokens, current_pos>>
    /\ UNCHANGED <<entry, data, lz_out, lz_meta, huff_out, huff_meta,
                   huff_decoded, output, matchVars, tableVars, containerVars, varintVars>>

\* compress_lz77, lines 129-136: the tokens, or the input when they are no
\* shorter
LzFinish ==
    /\ pc = "lz77_loop" /\ current_pos >= Len(data)
    /\ IF LzShrinks(result, data)
       THEN /\ lz_out' = result
            /\ lz_meta' = LzAppliedMeta(DEFAULT_WINDOW_SIZE, DEFAULT_LOOKAHEAD)
       ELSE /\ lz_out' = data
            /\ lz_meta' = NotAppliedMeta
    /\ pc' = AfterLz
    /\ UNCHANGED <<entry, data, current_pos, tokens, result, huff_out, huff_meta,
                   huff_decoded, output, matchVars, tableVars, containerVars, varintVars>>

\* the buffer compress_huffman is called on
HuffInput == IF entry = "huffman" THEN data ELSE lz_out

\* compress_huffman (alone, or second stage of combined_compress)
HuffCompress ==
    /\ pc = "huffman"
    /\ LET r == compress_huffman(HuffInput) IN
       IF r.ok
       THEN /\ huff_out' = r.val[1] /\ huff_meta' = r.val[2]
            /\ pc' = "unhuffman"
       ELSE /\ pc' = "raised"
            /\ UNCHANGED <<huff_out, huff_meta>>
    /\ UNCHANGED <<entry, data, current_pos, tokens, result, lz_out, lz_meta,
                   huff_decoded, output, matchVars, tableVars, containerVars, varintVars>>

\* decompress_huffman (alone, or first stage of combined_decompress)
HuffDecompress ==
    /\ pc = "unhuffman"
    /\ LET r == decompress_huffman(huff_out, huff_meta) IN
       /\ huff_decoded' = r
       /\ IF entry = "huffman" \/ ~r.ok
          THEN output' = r /\ pc' = "done"
          ELSE output' = output /\ pc' = "unlz77"
    /\ UNCHANGED <<entry, data, current_pos, tokens, result, lz_out, lz_meta,
                   huff_out, huff_meta, matchVars, tableVars, containerVars, varintVars>>

\* the buffer decompress_lz77 is called on
UnLzInput == IF entry = "lz77" THEN lz_out ELSE huff_decoded.val

\* decompress_lz77 (alone, or second stage of combined_decompress)
LzDecompress ==
    /\ pc = "unlz77"
    /\ output' = decompress_lz77(UnLzInput, lz_meta)
    /\ pc' = "done"
    /\ UNCHANGED <<entry, data, current_pos, tokens, result, lz_out, lz_meta,
                   huff_out, huff_meta, huff_decoded, matchVars, tableVars,
                   containerVars, varintVars>>

Next ==
    \/ LzSkip
    \/ LzEnter
    \/ LzToken
    \/ LzFinish
    \/ HuffCompress
    \/ HuffDecompress
    \/ LzDecompress

Spec == Init /\ [][Next]_vars

\* when an iteration of the token loop can run: ENABLED <<LzToken>>_vars
\* (an iteration always changes result or pc)
LzTokenEnabled == pc = "lz77_loop" /\ current_pos < Len(data)

\* compress_lz77 is sequential code: a call that has entered the loop runs
\* its next iteration and, the loop left, its return.  The weak fairness
\* of LzToken is written out with LzTokenEnabled for its ENABLED.
FairSpec ==
    /\ Spec
    /\ WF_vars(LzFinish)
    /\ ([]<>~LzTokenEnabled \/ []<><<LzToken>>_vars)


(***************************************************************************)
(* find_longest_match on its own                                           *)
(***************************************************************************)
MaxMatchData == 5
MaxWindow == 3
MaxLookahead == 3
MatchBytes == {65, 66}

BuffersUpTo(bytes, n) == UNION {[1..k -> bytes] : k \in 0..n}

\* (data, current_pos, window_size, lookahead_buffer_size) with
\* current_pos < len(data); the sizes are small ones and the defaults
MatchInputs ==
    {<<d, pos, w, l>> : d \in BuffersUpTo(MatchBytes, MaxMatchData) \ {<<>>},
                        pos \in 0..(MaxMatchData - 1),
                        w \in (1..MaxWindow) \cup {DEFAULT_WINDOW_SIZE},
                        l \in (1..MaxLookahead) \cup {DEFAULT_LOOKAHEAD}}

InitMatch ==
    /\ fm_args \in {a \in MatchInputs : a[2] < Len(a[1])}
    /\ fm_ret = <<>>
    /\ IdleCodec /\ IdleTable /\ IdleContainer /\ IdleVarint

\* one call of find_longest_match
FindLongestMatch ==
    /\ fm_ret = <<>>
    /\ fm_ret' = find_longest_match(fm_args[1], fm_args[2], fm_args[3], fm_args[4])
    /\ UNCHANGED <<fm_args, codecVars, tableVars, containerVars, varintVars>>

NextMatch == FindLongestMatch

SpecMatch == InitMatch /\ [][NextMatch]_vars

(***************************************************************************)
(* Huffman code tables: build_huffman_tree, build_huffman_codes,           *)
(* serialize_tree, deserialize_tree                                        *)
(***************************************************************************)
MaxSymbols == 3
MaxWeight == 3
MaxCodeLen == 9
TableSymbols == {0, 65, 66, 255}

\* sequences of k distinct symbols
DistinctSeqs(S, k) == {q \in [1..k -> S] : \A a, b \in 1..k : a # b => q[a] # q[b]}

\* frequency tables: distinct symbols in any insertion order, counts >= 1
FreqTables ==
    UNION {{[j \in 1..k |-> <<q[j], w[j]>>] :
                q \in DistinctSeqs(TableSymbols, k), w \in [1..k -> 1..MaxWeight]}
           : k \in 1..MaxSymbols}

BitStrings(lo, hi) == UNION {[1..n -> {0, 1}] : n \in lo..hi}

\* code tables that need not come from a tree: one symbol with any code up
\* to MaxCodeLen bits, two symbols with short codes, codes of 16, 17 and
\* 255 bits, and the table of all 256 symbols
CodeTables ==
    {<<<<sym, c>>>> : sym \in {0, 255}, c \in BitStrings(1, MaxCodeLen)}
    \cup {<<<<q[1], c1>>, <<q[2], c2>>>> :
              q \in DistinctSeqs({0, 65, 255}, 2),
              c1 \in BitStrings(1, 2), c2 \in BitStrings(1, 2)}
    \cup {<<<<65, [i \in 1..n |-> IF i % 3 = 0 THEN 0 ELSE 1]>>>> : n \in {16, 17, 255}}
    \cup {[k \in 1..256 |-> <<k - 1, [i \in 1..8 |-> BitOf(k - 1, i - 1)]>>]}

InitTable ==
    /\ \/ /\ tb_freq \in FreqTables /\ tb_codes = <<>> /\ tb_pc = "tree"
       \/ /\ tb_freq = <<>> /\ tb_codes \in CodeTables /\ tb_pc = "serialize"
    /\ tb_heap = {} /\ tb_bytes = <<>> /\ tb_back = Unset
    /\ IdleCodec /\ IdleMatch /\ IdleContainer /\ IdleVarint

\* build_huffman_tree, lines 26-30: the heap, and the one-symbol return
\* (followed by build_huffman_codes)
TreeHeapify ==
    /\ tb_pc = "tree"
    /\ tb_heap' = InitialHeap(tb_freq)
    /\ IF Cardinality(InitialHeap(tb_freq)) = 1
       THEN /\ tb_codes' = build_huffman_codes(SingleSymbolTree(InitialHeap(tb_freq)))
            /\ tb_pc' = "serialize"
       ELSE /\ tb_codes' = tb_codes
            /\ tb_pc' = "merge"
    /\ UNCHANGED <<tb_freq, tb_bytes, tb_back, codecVars, matchVars, containerVars, varintVars>>

\* build_huffman_tree, lines 32-38: one merge
TreeMerge ==
    /\ tb_pc = "merge" /\ Cardinality(tb_heap) > 1
    /\ tb_heap' = HeapMerge(tb_heap)
    /\ UNCHANGED <<tb_freq, tb_codes, tb_bytes, tb_back, tb_pc,
                   codecVars, matchVars, containerVars, varintVars>>

\* build_huffman_tree, line 40, followed by build_huffman_codes
TreeReturn ==
    /\ tb_pc = "merge" /\ Cardinality(tb_heap) = 1
    /\ tb_codes' = build_huffman_codes(HeapMin(tb_heap))
    /\ tb_pc' = "serialize"
    /\ UNCHANGED <<tb_freq, tb_heap, tb_bytes, tb_back,
                   codecVars, matchVars, containerVars, varintVars>>

\* serialize_tree(codes)
Serialize ==
    /\ tb_pc = "serialize"
    /\ tb_bytes' = serialize_tree(tb_codes)
    /\ tb_pc' = "deserialize"
    /\ UNCHANGED <<tb_freq, tb_heap, tb_codes, tb_back,
                   codecVars, matchVars, containerVars, varintVars>>

\* deserialize_tree(data)
Deserialize ==
    /\ tb_pc = "deserialize"
    /\ tb_back' = deserialize_tree(tb_bytes)
    /\ tb_pc' = "done"
    /\ UNCHANGED <<tb_freq, tb_heap, tb_codes, tb_bytes,
                   codecVars, matchVars, containerVars, varintVars>>

NextTable ==
    \/ TreeHeapify
    \/ TreeMerge
    \/ TreeReturn
    \/ Serialize
    \/ Deserialize

SpecTable == InitTable /\ [][NextTable]_vars

(***************************************************************************)
(* helper.py: the container file                                           *)
(*                                                                         *)
(* An unsigned 32-bit value is the pair <<high 16 bits, low 16 bits>>, so  *)
(* that the whole range 0..2^32-1 is covered.                              *)
(***************************************************************************)
MaxBlob == 2
HeaderBytes == {66}
MetadataBytes == {128}
PayloadBytes == {0, 255}
WidthValues == {<<0, 0>>, <<0, 258>>, <<1, 0>>, <<65535, 65535>>}
HeightValues == {<<0, 1>>, <<65535, 65535>>}
ChannelValues == {0, 3, 255}

\* the 32-bit value of a small natural number (a length)
U32Of(n) == <<n \div 65536, n % 65536>>
NatOf(u) == u[1] * 65536 + u[2]

\* struct.pack('<I', v): least significant byte first
PackU32(u) == <<u[2] % 256, u[2] \div 256, u[1] % 256, u[1] \div 256>>

\* UnpackU32 reading the most significant byte first
UnpackU32_BigEndian(b) == <<b[2] + 256 * b[1], b[4] + 256 * b[3]>>

\* struct.unpack('<I', four bytes)
UnpackU32(b) == <<b[3] + 256 * b[4], b[1] + 256 * b[2]>>

\* struct.pack('<I', len(blob)) + blob
PackBlob(blob) == PackU32(U32Of(Len(blob))) \o blob

\* what save_compressed_file writes (lines 84-91)
ContainerBytes(rec) ==
    PackU32(rec.width) \o PackU32(rec.height) \o <<rec.channels>>
    \o PackBlob(rec.header_data)
    \o PackBlob(rec.encoding_metadata)
    \o PackBlob(rec.compressed_data)

\* f.read(n) at 0-based pos: at most n bytes, fewer at the end of the file
FileRead(file, pos, n) == SubSeq(file, pos + 1, Min(pos + n, Len(file)))

\* f.read(struct.unpack('<I', f.read(4))[0]) at 0-based pos:
\* <<blob, new pos>>; unpack raises when f.read(4) is short
ReadBlob(file, pos) ==
    LET b == FileRead(file, pos, 4) IN
    IF Len(b) < 4 THEN Raised
    ELSE LET blob == FileRead(file, pos + 4, NatOf(UnpackU32(b)))
         IN  Returned(<<blob, pos + 4 + Len(blob)>>)

\* load_compressed_file (lines 108-128); Raised is the (None, None) result
load_compressed_file(file) ==
    LET dims == FileRead(file, 0, 8)
        ch == FileRead(file, 8, 1)
    IN  IF Len(dims) < 8 \/ Len(ch) < 1 THEN Raised
        ELSE LET header == ReadBlob(file, 9) IN
             IF ~header.ok THEN Raised
             ELSE LET meta == ReadBlob(file, header.val[2]) IN
                  IF ~meta.ok THEN Raised
                  ELSE LET payload == ReadBlob(file, meta.val[2]) IN
                       IF ~payload.ok THEN Raised
                       ELSE Returned([width |-> UnpackU32(SubSeq(dims, 1, 4)),
                                      height |-> UnpackU32(SubSeq(dims, 5, 8)),
                                      channels |-> ch[1],
                                      header_data |-> header.val[1],
                                      encoding_metadata |-> meta.val[1],
                                      compressed_data |-> payload.val[1]])

ContainerRecords ==
    [width : WidthValues, height : HeightValues, channels : ChannelValues,
     header_data : BuffersUpTo(HeaderBytes, MaxBlob),
     encoding_metadata : BuffersUpTo(MetadataBytes, MaxBlob),
     compressed_data : BuffersUpTo(PayloadBytes, MaxBlob)]

InitContainer ==
    /\ ct_rec \in ContainerRecords
    /\ ct_file = <<>> /\ ct_intact = FALSE /\ ct_loaded = Unset
    /\ ct_pc = "save"
    /\ IdleCodec /\ IdleMatch /\ IdleTable /\ IdleVarint

\* save_compressed_file(file_path, compressed_data, metadata)
Save ==
    /\ ct_pc = "save"
    /\ ct_file' = ContainerBytes(ct_rec)
    /\ ct_intact' = TRUE
    /\ ct_pc' = "stored"
    /\ UNCHANGED <<ct_rec, ct_loaded, codecVars, matchVars, tableVars, varintVars>>

\* the environment cuts the stored file short
Truncate ==
    /\ ct_pc = "stored" /\ ct_intact
    /\ \E k \in 0..(Len(ct_file) - 1) : ct_file' = SubSeq(ct_file, 1, k)
    /\ ct_intact' = FALSE
    /\ UNCHANGED <<ct_rec, ct_loaded, ct_pc, codecVars, matchVars, tableVars, varintVars>>

\* load_compressed_file(file_path)
Load ==
    /\ ct_pc = "stored"
    /\ ct_loaded' = load_compressed_file(ct_file)
    /\ ct_pc' = "loaded"
    /\ UNCHANGED <<ct_rec, ct_file, ct_intact, codecVars, matchVars, tableVars, varintVars>>

NextContainer ==
    \/ Save
    \/ Truncate
    \/ Load

SpecContainer == InitContainer /\ [][NextContainer]_vars



\* compress_lz77 has returned / compress_huffman has returned
(***************************************************************************)
(* variable_length_encode and variable_length_decode on their own          *)
(***************************************************************************)
\* the first value that takes two bytes, and the largest value 15 bits hold
TWO_BYTE_FROM == 128
VARINT_MAX == 32767

\* the largest one-byte value and the smallest two-byte value
VarintEdges == {TWO_BYTE_FROM - 1, TWO_BYTE_FROM}

\* (offset, length): one of the two is any value of 0..32767, the other is
\* an edge value
InitVarint ==
    /\ \/ vl_args \in (0..VARINT_MAX) \X VarintEdges
       \/ vl_args \in VarintEdges \X (0..VARINT_MAX)
    /\ vl_bytes = <<>> /\ vl_ret = Unset
    /\ IdleCodec /\ IdleMatch /\ IdleTable /\ IdleContainer

\* variable_length_encode(offset, length)
VarintEncode ==
    /\ vl_bytes = <<>>
    /\ vl_bytes' = variable_length_encode(vl_args[1], vl_args[2])
    /\ UNCHANGED <<vl_args, vl_ret, codecVars, matchVars, tableVars, containerVars>>

\* variable_length_decode(data, 0) on the encoded bytes
VarintDecode ==
    /\ vl_bytes # <<>> /\ vl_ret = Unset
    /\ vl_ret' = variable_length_decode(vl_bytes, 0)
    /\ UNCHANGED <<vl_args, vl_bytes, codecVars, matchVars, tableVars, containerVars>>

NextVarint ==
    \/ VarintEncode
    \/ VarintDecode

SpecVarint == InitVarint /\ [][NextVarint]_vars

(***************************************************************************)
(* Properties                                                              *)
(***************************************************************************)
LzRan == entry \in {"combined", "lz77"} /\ lz_meta # Unset
HuffRan == entry \in {"combined", "huffman"} /\ huff_meta # Unset

\* C1: combined_decompress(combined_compress(b)) returns exactly b, for
\* every byte buffer b.
C1_CombinedRoundTrip ==
    (entry = "combined" /\ pc = "done") => output = Returned(data)

\* C2: loading the file that save_compressed_file wrote returns the
\* identical width, height, channel count, header blob, metadata blob and
\* payload.
C2_ContainerRoundTrip ==
    (ct_pc = "loaded" /\ ct_intact) =>
        /\ ct_loaded.ok
        /\ ct_loaded.val.width = ct_rec.width
        /\ ct_loaded.val.height = ct_rec.height
        /\ ct_loaded.val.channels = ct_rec.channels
        /\ ct_loaded.val.header_data = ct_rec.header_data
        /\ ct_loaded.val.encoding_metadata = ct_rec.encoding_metadata
        /\ ct_loaded.val.compressed_data = ct_rec.compressed_data

C2_Witness ==
    /\ ct_pc = "loaded" /\ ct_intact /\ ct_loaded.ok
    /\ ct_rec.width = <<65535, 65535>> /\ ct_rec.height = <<65535, 65535>>
    /\ ct_rec.channels = 255
    /\ Len(ct_rec.header_data) = MaxBlob
    /\ Len(ct_rec.encoding_metadata) = 1
    /\ ct_rec.compressed_data = <<255, 0>>

\* the value of the length prefix at 0-based pos of a file, when the four
\* bytes are there
PrefixAt(file, pos) ==
    file[pos + 1] + 256 * file[pos + 2] + 65536 * file[pos + 3]
        + 16777216 * file[pos + 4]

\* the length prefix at 0-based pos is whole and announces more bytes than
\* remain after it
Overrun(file, pos) ==
    Len(file) >= pos + 4 /\ PrefixAt(file, pos) > Len(file) - (pos + 4)

\* some length prefix of the file (header, metadata or payload, each found
\* after the fields before it) announces more bytes than remain
SomePrefixOverruns(file) ==
    \/ Overrun(file, 9)
    \/ /\ Len(file) >= 13 /\ ~Overrun(file, 9)
       /\ LET p2 == 13 + PrefixAt(file, 9) IN
          \/ Overrun(file, p2)
          \/ /\ Len(file) >= p2 + 4 /\ ~Overrun(file, p2)
             /\ Overrun(file, p2 + 4 + PrefixAt(file, p2))

\* C3: when a length prefix of the file announces more bytes than remain,
\* load_compressed_file fails instead of returning a shortened field.
C3_OverrunFails ==
    (ct_pc = "loaded" /\ SomePrefixOverruns(ct_file)) => ~ct_loaded.ok

\* no code of the table is a prefix of another one
PrefixFree(codes) ==
    \A a, b \in 1..Len(codes) :
        a # b => ~(/\ Len(codes[a][2]) <= Len(codes[b][2])
                   /\ SubSeq(codes[b][2], 1, Len(codes[a][2])) = codes[a][2])

\* C4: the code table built from a non-empty frequency table has one code
\* per symbol, every code has at least one bit, no code is a prefix of
\* another, and a single symbol gets the code "0".
C4_PrefixFreeCodes ==
    (tb_freq # <<>> /\ tb_pc \in {"serialize", "deserialize", "done"}) =>
        /\ Len(tb_codes) = Len(tb_freq)
        /\ Keys(tb_codes) = Keys(tb_freq)
        /\ \A k \in 1..Len(tb_codes) : Len(tb_codes[k][2]) >= 1
        /\ PrefixFree(tb_codes)
        /\ Len(tb_freq) = 1 => tb_codes = <<<<tb_freq[1][1], <<0>>>>>>

C4_Witness ==
    /\ tb_pc = "serialize" /\ Len(tb_freq) = 3 /\ Len(tb_codes) = 3
    /\ \E k \in 1..3 : Len(tb_codes[k][2]) = 1
    /\ \E k \in 1..3 : Len(tb_codes[k][2]) = 2

\* C5: deserialize_tree(serialize_tree(codes)) equals codes for every
\* valid code table.
C5_TableRoundTrip ==
    tb_pc = "done" => (tb_back.ok /\ DictEq(tb_back.val, tb_codes))

C5_Witness ==
    /\ tb_pc = "done" /\ tb_freq = <<>> /\ tb_back.ok
    /\ Len(tb_codes) = 1 /\ Len(tb_codes[1][2]) = MaxCodeLen
    /\ tb_codes[1][2][MaxCodeLen] = 1

\* C6: a stage that reports applied = false returns its input verbatim,
\* and its decompress, given applied = false metadata, returns exactly the
\* bytes it was given.
C6_NotAppliedIsIdentity ==
    /\ (LzRan /\ lz_meta = NotAppliedMeta) => lz_out = data
    /\ (HuffRan /\ huff_meta = NotAppliedMeta) => huff_out = HuffInput
    /\ (huff_decoded # Unset /\ huff_meta = NotAppliedMeta) =>
           huff_decoded = Returned(huff_out)
    /\ (pc = "done" /\ entry = "lz77" /\ lz_meta = NotAppliedMeta) =>
           output = Returned(lz_out)
    /\ (pc = "done" /\ entry \in {"combined", "stored"} /\ huff_decoded.ok
            /\ lz_meta = NotAppliedMeta) =>
           output = Returned(huff_decoded.val)

C6_Witness ==
    /\ pc = "done" /\ entry = "combined" /\ Len(data) >= 100
    /\ lz_meta = NotAppliedMeta /\ huff_meta = NotAppliedMeta
    /\ output = Returned(data)

\* C7: compress_lz77 reports applied = true only when its token stream is
\* strictly shorter than its input, compress_huffman only when packed
\* bytes + serialized table + 10 is strictly less than the input length;
\* in every other case the stage reports applied = false.
C7_ShrinkOrFallback ==
    /\ LzRan =>
          IF Len(data) >= 50 /\ Len(result) < Len(data)
          THEN lz_meta.compressed /\ lz_out = result
          ELSE lz_meta = NotAppliedMeta
    /\ (HuffRan /\ pc = "unhuffman") =>
          IF huff_meta = NotAppliedMeta
          THEN \/ Len(HuffInput) < 100
               \/ LET codes == build_huffman_codes(
                          build_huffman_tree(build_frequency_table(HuffInput)).val)
                  IN  (Len(EncodeData(HuffInput, codes)) + 7) \div 8
                          + Len(serialize_tree(codes)) + 10 >= Len(HuffInput)
          ELSE /\ huff_meta.compressed
               /\ Len(huff_out) + Len(huff_meta.huffman_codes) + 10
                      < Len(HuffInput)

C7_Witness ==
    /\ pc = "unhuffman" /\ entry = "huffman" /\ Len(data) >= 100
    /\ huff_meta = NotAppliedMeta

\* C8: compress_lz77 (default window and lookahead), compress_huffman and
\* combined_compress return bytes and metadata for every buffer and never
\* raise.
C8_CompressionNeverFails ==
    /\ pc # "raised"
    /\ IsBytes(result) /\ IsBytes(lz_out) /\ IsBytes(huff_out)
    /\ LzRan => lz_meta \in {NotAppliedMeta,
                             LzAppliedMeta(DEFAULT_WINDOW_SIZE, DEFAULT_LOOKAHEAD)}
    /\ HuffRan => "compressed" \in DOMAIN huff_meta

C8_Witness ==
    /\ pc = "unhuffman" /\ entry = "combined" /\ Len(data) >= 100
    /\ lz_meta.compressed /\ \E k \in 1..Len(data) : data[k] = 255

\* C9: compress_lz77 returns its input unchanged with applied = false for
\* every buffer shorter than 50 bytes, compress_huffman for every buffer
\* shorter than 100 bytes.
C9_SizeThresholds ==
    /\ (LzRan /\ Len(data) < 50) => (lz_out = data /\ lz_meta = NotAppliedMeta)
    /\ (HuffRan /\ Len(HuffInput) < 100) =>
           (huff_out = HuffInput /\ huff_meta = NotAppliedMeta)

C9_Witness ==
    /\ pc = "unhuffman" /\ entry = "combined" /\ Len(data) = 49
    /\ lz_out = data /\ huff_out = data

\* the length of the common run of data[i..] and data[pos..], limited to
\* the lookahead end
CommonRun(d, i, pos, end_of_buffer) ==
    CHOOSE k \in 0..(end_of_buffer - pos) :
        /\ \A j \in 0..(k - 1) : d[i + j + 1] = d[pos + j + 1]
        /\ k = end_of_buffer - pos \/ d[i + k + 1] # d[pos + k + 1]

SetMax(S) == IF S = {} THEN 0 ELSE CHOOSE m \in S : \A x \in S : x <= m

\* the window of start indices and the lookahead end of a call
WindowOf(a) == Max(0, a[2] - a[3])..(a[2] - 1)
LookaheadEnd(a) == Min(a[2] + a[4], Len(a[1]))

\* the literal of a match of the given length
LiteralIs(a, length, lit) ==
    lit = IF a[2] + length < Len(a[1]) THEN a[1][a[2] + length + 1] ELSE None

\* C10 as stated: the length is the maximum over the window of the common
\* run limited to the lookahead end, the offset is pos - i for a start that
\* attains it, the literal is data[pos + length] or None.
C10_LongestRun ==
    fm_ret # <<>> =>
        LET run(i) == CommonRun(fm_args[1], i, fm_args[2], LookaheadEnd(fm_args))
        IN  /\ fm_ret[2] = SetMax({run(i) : i \in WindowOf(fm_args)})
            /\ fm_ret[2] > 0 =>
                   \E i \in WindowOf(fm_args) :
                       run(i) = fm_ret[2] /\ fm_ret[1] = fm_args[2] - i
            /\ LiteralIs(fm_args, fm_ret[2], fm_ret[3])

\* C10 amended: the run of a start i is also limited to pos - i bytes (the
\* source run ends before pos); the offset is 0 when no byte matches.
C10_LongestRunBeforePos ==
    fm_ret # <<>> =>
        LET run(i) == Min(CommonRun(fm_args[1], i, fm_args[2], LookaheadEnd(fm_args)),
                          fm_args[2] - i)
        IN  /\ fm_ret[2] = SetMax({run(i) : i \in WindowOf(fm_args)})
            /\ fm_ret[2] > 0 =>
                   \E i \in WindowOf(fm_args) :
                       run(i) = fm_ret[2] /\ fm_ret[1] = fm_args[2] - i
            /\ fm_ret[2] = 0 => fm_ret[1] = 0
            /\ LiteralIs(fm_args, fm_ret[2], fm_ret[3])

C10_Witness ==
    /\ fm_ret # <<>> /\ fm_ret[2] = 2 /\ fm_ret[1] = 2 /\ fm_ret[3] = 66
    /\ Len(fm_args[1]) = 5 /\ fm_args[2] = 2 /\ fm_args[1][1] = fm_args[1][5]
    /\ fm_args[4] >= 3

SetMin(S) == CHOOSE m \in S : \A x \in S : m <= x

\* the run of start i that counts for a call: the common run limited to the
\* lookahead end and to the bytes before pos
MatchRun(a, i) == Min(CommonRun(a[1], i, a[2], LookaheadEnd(a)), a[2] - i)

\* the start indices of the window whose run is the maximal one
BestStarts(a) ==
    {i \in WindowOf(a) :
        MatchRun(a, i) = SetMax({MatchRun(a, j) : j \in WindowOf(a)})}

\* several starts give the same maximal, non-empty run
TiedCall == fm_ret # <<>> /\ fm_ret[2] > 0 /\ Cardinality(BestStarts(fm_args)) >= 2

C12_MatchBounds ==
    fm_ret # <<>> =>
        /\ 0 <= fm_ret[2] /\ fm_ret[2] <= fm_ret[1]
        /\ fm_ret[1] <= Min(fm_args[2], fm_args[3])
        /\ fm_ret[2] <= fm_args[4]
        /\ (fm_args[2] - fm_ret[1]) + fm_ret[2] <= fm_args[2]
        /\ (fm_ret[1] = 0) <=> (fm_ret[2] = 0)

C12_Witness ==
    /\ fm_ret # <<>> /\ fm_ret[1] = 2 /\ fm_ret[2] = 2
    /\ fm_args[2] = 3 /\ fm_args[3] = 2 /\ fm_args[4] = 2


\* the number of bytes a value takes
VarintSize(v) == IF v < TWO_BYTE_FROM THEN 1 ELSE 2

\* the encoding of v starts at 1-based position k of the bytes: one byte
\* holding v below 128, else two bytes, the first with its high bit set
VarintShape(bytes, k, v) ==
    IF v < TWO_BYTE_FROM THEN bytes[k] = v
    ELSE bytes[k] >= 128 /\ bytes[k] <= 255 /\ bytes[k + 1] \in 0..255

\* C13: for every offset and length in 0..32767,
\* variable_length_decode(variable_length_encode(offset, length), 0)
\* returns (offset, length, n) with n the number of encoded bytes; a value
\* below 128 takes one byte, a value of 128..32767 two bytes with the high
\* bit of the first one set.
C13_VarintRoundTrip ==
    /\ vl_bytes # <<>> =>
          /\ Len(vl_bytes) = VarintSize(vl_args[1]) + VarintSize(vl_args[2])
          /\ IsBytes(vl_bytes)
          /\ VarintShape(vl_bytes, 1, vl_args[1])
          /\ VarintShape(vl_bytes, 1 + VarintSize(vl_args[1]), vl_args[2])
    /\ vl_ret # Unset =>
          vl_ret = Returned(<<vl_args[1], vl_args[2], Len(vl_bytes)>>)

C13_Witness ==
    /\ vl_ret # Unset /\ vl_ret.ok /\ vl_args = <<VARINT_MAX, TWO_BYTE_FROM>>
    /\ vl_bytes = <<255, 255, 128, 128>>


\* compress_huffman has run and reports applied = true
HuffApplied == HuffRan /\ huff_meta.compressed

\* C14: when compress_huffman reports applied = true on d,
\* decompress_huffman of the packed bytes with the returned metadata
\* returns exactly d: the padding is in 0..7, the padding bits are not
\* decoded as symbols and exactly len(d) symbols come out.
C14_HuffmanRoundTrip ==
    HuffApplied =>
        /\ huff_meta.padding \in 0..7
        /\ huff_decoded # Unset =>
              /\ huff_decoded.ok
              /\ Len(huff_decoded.val) = Len(HuffInput)
              /\ huff_decoded.val = HuffInput

C14_Witness ==
    /\ HuffApplied /\ entry = "huffman" /\ pc = "done"
    /\ huff_meta.padding > 0 /\ Cardinality(Range(data)) >= 3
    /\ output = Returned(data)


\* compress_lz77 has run and reports applied = true
LzApplied == LzRan /\ lz_meta.compressed

\* the literal of token k is a data byte 0xFF (not the absent literal)
GenuineSentinel(k) == tokens[k][4] = SENTINEL

\* the number of 0xFF literals among the tokens before token k
DroppedBefore(k) == Cardinality({j \in 1..(k - 1) : GenuineSentinel(j)})

\* some match token's literal is a data byte 0xFF
MatchWithSentinelLiteral ==
    \E k \in 1..Len(tokens) : tokens[k][3] > 0 /\ GenuineSentinel(k)

\* some match token's offset reaches before the start of the output as
\* shortened by the 0xFF literals dropped before it
CopyOverrun ==
    \E k \in 1..Len(tokens) :
        tokens[k][3] > 0 /\ tokens[k][2] > tokens[k][1] - DroppedBefore(k)

\* decompress_lz77 has run on the token stream of an applied stage in which
\* a match token's literal is a data byte 0xFF
SentinelCase ==
    /\ LzApplied /\ pc = "done" /\ entry \in {"lz77", "combined"}
    /\ MatchWithSentinelLiteral

TokenFollows(k) ==
    /\ tokens[k][1] = IF k = 1 THEN 0
                      ELSE tokens[k - 1][1] + tokens[k - 1][3] + 1
    /\ tokens[k][1] < Len(data)

\* the match of token k is a copy of the bytes it stands for, and its
\* literal is the data byte after the match, absent only when the match
\* ends at the end of the buffer
TokenCovers(k) ==
    LET pos == tokens[k][1]
        offset == tokens[k][2]
        length == tokens[k][3]
    IN  /\ length >= 0 /\ pos + length <= Len(data)
        /\ \A j \in 1..length : data[pos - offset + j] = data[pos + j]
        /\ tokens[k][4] = IF pos + length < Len(data)
                          THEN data[pos + length + 1] ELSE None

\* the tokens so far cover data[0 .. current_pos) with no gap and no
\* overlap, and the absent literal is in the last token only
TokensCover ==
    /\ \A k \in 1..Len(tokens) :
          /\ TokenFollows(k) /\ TokenCovers(k)
          /\ tokens[k][4] = None =>
                 (k = Len(tokens) /\ tokens[k][1] + tokens[k][3] = Len(data))
    /\ current_pos = IF tokens = <<>> THEN 0
                     ELSE tokens[Len(tokens)][1] + tokens[Len(tokens)][3] + 1
    /\ (LzRan /\ Len(data) >= LZ_MIN_INPUT) =>
          /\ tokens # <<>>
          /\ current_pos = Len(data)
                 + (IF tokens[Len(tokens)][4] = None THEN 1 ELSE 0)

\* C16: the token loop of compress_lz77 terminates for every buffer of 50
\* bytes or more: pos grows by length + 1 at each token, the tokens cover
\* the buffer with no gap and no overlap, every token but possibly the last
\* carries the data byte data[pos + length] as its literal, and the absent
\* literal is in the last token only, when its match ends at the end of the
\* buffer.
C16_TokenLoop ==
    /\ []TokensCover
    /\ [][pc = "lz77_loop" /\ pc' = "lz77_loop" =>
             /\ Len(tokens') = Len(tokens) + 1
             /\ current_pos' = current_pos + tokens'[Len(tokens')][3] + 1
             /\ current_pos' > current_pos]_vars
    /\ (pc = "lz77_loop") ~> (pc # "lz77_loop")

C16_Witness ==
    /\ LzRan /\ entry = "lz77" /\ Len(data) = LZ_MIN_INPUT
    /\ Len(tokens) >= 3 /\ tokens[Len(tokens)][4] = None
    /\ tokens[Len(tokens)][3] > 0 /\ current_pos = Len(data) + 1


\* the buffer holds no 0xFF byte
NoSentinelByte(d) == \A k \in 1..Len(d) : d[k] # SENTINEL

\* C17: for every buffer without a 0xFF byte, with the default window 4096
\* and lookahead 128, decompress_lz77(compress_lz77(b)) returns exactly b,
\* whether or not the stage was applied.
C17_LzRoundTripNoSentinel ==
    (entry = "lz77" /\ pc = "done" /\ NoSentinelByte(data)) =>
        output = Returned(data)

C17_Witness ==
    /\ entry = "lz77" /\ pc = "done" /\ LzApplied
    /\ data = Ramp(LongRunLen, 65, 1)
    /\ \E k \in 1..Len(tokens) : tokens[k][3] = DEFAULT_LOOKAHEAD
    /\ output = Returned(data)


=============================================================================
